---- MODULE Spec2Model ----
(***************************************************************************)
(* Model of the daily SEO pipeline (src/pipeline): the two source          *)
(* connectors, the table normalizer, the Google Sheets upsert writer, the  *)
(* notifier and the orchestrator run_pipeline.                             *)
(*                                                                         *)
(* A DataFrame is a record [columns, rows]: columns is the ordered list of *)
(* column names, rows the ordered list of rows, each row a function from   *)
(* column name to cell.  Cells of the date column are records              *)
(* [kind, day, time]; cells of the url column are strings; metric cells    *)
(* are integers, NaN standing for a missing value.  Fractional metrics are *)
(* kept as scaled integers (ctr in thousandths, position in tenths, ...).  *)
(***************************************************************************)
EXTENDS Integers, Sequences, FiniteSets, TLC

VARIABLES
    pc,              \* position of the specification's process
    normIn,          \* SpecNorm: the table handed to _prepare_dataframe
    normOnce,        \* SpecNorm: _prepare_dataframe(normIn)
    normTwice,       \* SpecNorm: _prepare_dataframe(normOnce)
    worksheets,      \* worksheet title -> worksheet state of the spreadsheet
    backups,         \* worksheet title -> local backup CSV (or NoFile)
    sheetOps,        \* spreadsheet/file operations of the last upsert call
    existing,        \* worksheet state the last upsert call started from
    firstResult,     \* SpecUpsert: worksheet state left by the first call
    dataframe,       \* the new table of the last upsert call
    sheetsEnv,       \* availability of gspread / Sheets credentials / API
    spreadsheet_id,  \* run_pipeline: TRUE when a spreadsheet id is configured
    gsc_site_url,    \* run_pipeline: TRUE when a site URL is configured
    ga4_property_id, \* run_pipeline: TRUE when a property id is configured
    target_date,     \* run_pipeline: the day to process
    gscEnv,          \* availability of the Search Console client / credentials
    ga4Env,          \* availability of the GA4 client / credentials
    ga4BaseUrl,      \* GA4_BASE_URL ("" when unset)
    gscCall,         \* what the Search Console live call did
    ga4Call,         \* what the GA4 live calls did
    ga4Queries,      \* queries of the GA4 connector in order: dimension, outcome, records
    gsc_df,          \* run_pipeline local
    ga4_df,          \* run_pipeline local
    gsc_rows,        \* run_pipeline local
    ga4_rows,        \* run_pipeline local
    success,         \* run_pipeline local
    error_message,   \* run_pipeline local (None, or the text of an exception)
    raised,          \* text of the exception raised (None when none)
    notifications,   \* calls of send_pipeline_summary_notification, in order
    steps            \* steps run_pipeline has performed, in order

vars == <<pc, normIn, normOnce, normTwice, worksheets, backups, sheetOps,
          existing, firstResult, dataframe, sheetsEnv, spreadsheet_id,
          gsc_site_url, ga4_property_id, target_date, gscEnv, ga4Env,
          ga4BaseUrl, gscCall, ga4Call, ga4Queries, gsc_df, ga4_df, gsc_rows, ga4_rows, success,
          error_message, raised, notifications, steps>>

normVars == <<normIn, normOnce, normTwice>>
sheetVars == <<worksheets, backups, sheetOps, existing, dataframe>>
runVars == <<spreadsheet_id, gsc_site_url, ga4_property_id, target_date,
             gscEnv, ga4Env, ga4BaseUrl, gscCall, ga4Call, ga4Queries, gsc_df,
             ga4_df,
             gsc_rows, ga4_rows, success, error_message, raised,
             notifications, steps>>

-----------------------------------------------------------------------------
(* Bounds of the model. *)

\* longest table drawn as existing worksheet contents or as new table
MaxRows == 2
\* longest table drawn as input of the normalizer
MaxNormRows == 1
\* most rows one live API response holds
MaxFetch == 1

\* the calendar days of the model (ISO strings order as their days do)
Days == {1, 2}
\* metric values of rows drawn as inputs
Metrics == {0, 1}

\* a missing value (None / NaN) in a metric cell
NaN == 0 - 1

-----------------------------------------------------------------------------
(* Cells of the date column. *)

DateObj(d) == [kind |-> "date", day |-> d, time |-> 0]
IsoStr(d) == [kind |-> "str", day |-> d, time |-> 0]
Timestamp(d, t) == [kind |-> "timestamp", day |-> d, time |-> t]
NaT == [kind |-> "nat", day |-> 0, time |-> 0]
NaTStr == [kind |-> "nat_str", day |-> 0, time |-> 0]

\* every URL string of the model, in Python's string order
UrlOrder == <<"/a", "/articulo-1", "/articulo-2", "/b", "a",
              "https://ejemplo.com/articulo-1",
              "https://ejemplo.com/articulo-2",
              "https://site.com//a", "https://site.com/a",
              "https://site.com/b">>

UrlRank(u) == CHOOSE i \in 1..Len(UrlOrder) : UrlOrder[i] = u

\* The text of an exception, str(exc): what it says and how many characters
\* it has.  None is the absence of a text.
Msg(id, len) == [id |-> id, len |-> len, ellipsis |-> FALSE]
None == Msg("None", 0)

Range(s) == {s[i] : i \in 1..Len(s)}

SeqsUpTo(S, n) == UNION {[1..k -> S] : k \in 0..n}

Empty(df) == Len(df.rows) = 0 \/ Len(df.columns) = 0

-----------------------------------------------------------------------------
(* Table normalizer: data_pipeline._prepare_dataframe. *)

\* pd.to_datetime on one cell: dates and ISO strings parse to midnight of
\* their day, a timestamp is kept, None / NaT / "NaT" give NaT
ToDatetime(c) ==
    CASE c.kind = "date" -> Timestamp(c.day, 0)
      [] c.kind = "str" -> Timestamp(c.day, 0)
      [] c.kind = "timestamp" -> c
      [] OTHER -> NaT

\* .dt.date: the calendar day of a timestamp, NaT for NaT
DtDate(c) == IF c.kind = "timestamp" THEN DateObj(c.day) ELSE NaT

\* .astype(str): the ISO string of a date, the string "NaT" for NaT
AsTypeStr(c) == IF c.kind = "date" THEN IsoStr(c.day) ELSE NaTStr

\* df.fillna(0) on one metric cell
FillNa(v) == IF v = NaN THEN 0 ELSE v

OrderedColsReversed(columns, date_column) ==
    LET rest == SelectSeq(columns, LAMBDA c : c \notin {date_column, "url"})
    IN  <<date_column, "url">> \o [i \in 1..Len(rest) |-> rest[Len(rest) + 1 - i]]

\* ordered_cols = [date_column, "url"] + [the other columns, in their order]
OrderedCols(columns, date_column) ==
    <<date_column, "url">>
        \o SelectSeq(columns, LAMBDA c : c \notin {date_column, "url"})

\* The date column holds strings once converted and url cells are strings,
\* so fillna(0) changes metric cells only.
PrepareDataframe(df, date_column) ==
    IF Empty(df)
    THEN df
    ELSE [columns |-> OrderedCols(df.columns, date_column),
          rows |-> [i \in 1..Len(df.rows) |->
                      [c \in DOMAIN df.rows[i] |->
                          IF c = date_column
                          THEN AsTypeStr(DtDate(ToDatetime(df.rows[i][c])))
                          ELSE IF c = "url" THEN df.rows[i][c]
                          ELSE FillNa(df.rows[i][c])]]]

-----------------------------------------------------------------------------
(* Sheet upsert writer: sheets_manager. *)

GSC_COLUMNS == <<"date", "url", "clicks", "impressions", "ctr", "position">>
GA4_COLUMNS == <<"date", "url", "users", "sessions", "avg_session_duration",
                 "bounce_rate">>

Titles == {"gsc_data_daily", "ga4_data_daily"}

\* A worksheet that does not exist, and the states of one that does: rows
\* holds the data rows below the header row.
NoWorksheet == [exists |-> FALSE, header |-> <<>>, rows |-> <<>>]
BlankWorksheet == [exists |-> TRUE, header |-> <<>>, rows |-> <<>>]
Worksheet(header, rows) == [exists |-> TRUE, header |-> header, rows |-> rows]

NoFile == [exists |-> FALSE, columns |-> <<>>, rows |-> <<>>]
CsvFile(df) == [exists |-> TRUE, columns |-> df.columns, rows |-> df.rows]

KeyOf(row) == <<row["date"], row["url"]>>

\* ascending order of the key columns ["date", "url"]
KeyLess(a, b) ==
    \/ a["date"].day < b["date"].day
    \/ a["date"].day = b["date"].day /\ UrlRank(a["url"]) < UrlRank(b["url"])

\* drop_duplicates(subset=key_columns, keep="last")
DropDuplicatesKeepLast(rows) ==
    LET keep == {i \in 1..Len(rows) :
                    \A j \in (i + 1)..Len(rows) : KeyOf(rows[j]) # KeyOf(rows[i])}
        Nth[k \in 0..Len(rows)] ==
            IF k = 0 THEN 0
            ELSE CHOOSE i \in keep :
                    /\ i > Nth[k - 1]
                    /\ \A j \in keep : j > Nth[k - 1] => i <= j
    IN  [k \in 1..Cardinality(keep) |-> rows[Nth[k]]]

\* row r put into the sorted list s after every row whose key is not greater
InsertSorted(s, r) ==
    LET n == Cardinality({i \in 1..Len(s) : ~KeyLess(r, s[i])})
    IN  SubSeq(s, 1, n) \o <<r>> \o SubSeq(s, n + 1, Len(s))

RECURSIVE SortValues(_)
\* sort_values(key_columns).reset_index(drop=True)
SortValues(rows) ==
    IF rows = <<>> THEN <<>>
    ELSE InsertSorted(SortValues(SubSeq(rows, 1, Len(rows) - 1)), rows[Len(rows)])

MergeKeepFirst(old, new_data) ==
    [columns |-> old.columns,
     rows |-> SortValues(DropDuplicatesKeepLast(new_data.rows \o old.rows))]

\* _merge_dataframes(existing, new_data, key_columns).  Worksheets of the
\* program hold the key columns, so lines 82-84 add nothing.
MergeDataframes(old, new_data) ==
    [columns |-> old.columns,
     rows |-> SortValues(DropDuplicatesKeepLast(old.rows \o new_data.rows))]

\* a blank cell ("") of a worksheet
Blank == 0 - 2

\* _dataframe_to_sheet_rows: one list of cells per row, a missing value
\* written as the empty string
DataframeToSheetRows(df) ==
    IF Empty(df) THEN <<>>
    ELSE [i \in 1..Len(df.rows) |->
            [c \in DOMAIN df.rows[i] |->
                IF c \in {"date", "url"} THEN df.rows[i][c]
                ELSE IF df.rows[i][c] = NaN THEN Blank ELSE df.rows[i][c]]]

\* pd.DataFrame(worksheet.get_all_records()): one record per data row, keyed
\* by the header row; no data rows give a frame without columns
GetAllRecords(ws) ==
    IF Len(ws.rows) = 0 THEN [columns |-> <<>>, rows |-> <<>>]
    ELSE [columns |-> ws.header, rows |-> ws.rows]

SheetsEnvs == {"ok", "no_gspread", "no_credentials", "api_error"}

UpsertResult(wss, bks, ops, exc) ==
    [worksheets |-> wss, backups |-> bks, ops |-> ops, raised |-> exc]

\* lines 52-59: the worksheet does not exist, first write
FirstWrite(wss, bks, title, df) ==
    UpsertResult(
        [wss EXCEPT ![title] = Worksheet(df.columns, DataframeToSheetRows(df))],
        bks,
        <<"open_by_key", "worksheet", "add_worksheet", "update_A1", "update_A2">>,
        FALSE)

\* lines 61-74: read, merge, clear and rewrite the worksheet
ReadMergeWrite(wss, bks, title, df) ==
    LET existing_df == GetAllRecords(wss[title])
        merged_df == IF Empty(existing_df) THEN df
                     ELSE MergeDataframes(existing_df, df)
    IN  UpsertResult(
            [wss EXCEPT ![title] =
                Worksheet(merged_df.columns, DataframeToSheetRows(merged_df))],
            bks,
            <<"open_by_key", "worksheet", "get_all_records", "clear", "update_A1">>
                \o (IF Empty(merged_df) THEN <<>> ELSE <<"update_A2">>),
            FALSE)

\* lines 33-74, the part after the empty check
UpdateNonEmpty(wss, bks, title, df, env) ==
    IF env \in {"no_gspread", "no_credentials"}
    THEN UpsertResult(wss, [bks EXCEPT ![title] = CsvFile(df)], <<"to_csv">>, FALSE)
    ELSE IF env = "api_error"
    THEN UpsertResult(wss, bks, <<"open_by_key">>, TRUE)
    ELSE IF ~wss[title].exists
    THEN FirstWrite(wss, bks, title, df)
    ELSE ReadMergeWrite(wss, bks, title, df)

UpdateWithoutEmptyCheck(wss, bks, title, df, env) ==
    UpdateNonEmpty(wss, bks, title, df, env)

\* update_sheet_with_dataframe(spreadsheet_id, worksheet_title, dataframe,
\* key_columns = ["date", "url"]).  env tells whether gspread imports, whether
\* the credentials file is found, and whether the spreadsheet opens: an API
\* error raised by open_by_key leaves the function before any change.
UpdateSheetWithDataframe(wss, bks, title, df, env) ==
    IF Empty(df)
    THEN UpsertResult(wss, bks, <<>>, FALSE)
    ELSE UpdateNonEmpty(wss, bks, title, df, env)

-----------------------------------------------------------------------------
(* SpecUpsert: update_sheet_with_dataframe called on the search worksheet    *)
(* with a table N, and called again with the same N (a re-run).             *)

EmptyFrame(columns) == [columns |-> columns, rows |-> <<>>]

GscRow(d, u, c) ==
    [date |-> IsoStr(d), url |-> u, clicks |-> c, impressions |-> 0,
     ctr |-> 0, position |-> 0]

\* rows a run fetched for day d
FetchedRows(d) == {GscRow(d, u, c) : u \in {"/a", "/b"}, c \in Metrics}

\* rows earlier runs left in the worksheet, for any day
StaleRows == {GscRow(d, u, 0) : d \in Days, u \in {"/a", "/b"}}

\* tables the orchestrator passes: normalized rows of one target date, in
\* any order, keys possibly repeated
NewTables ==
    {[columns |-> GSC_COLUMNS, rows |-> r] :
        r \in UNION {SeqsUpTo(FetchedRows(d), MaxRows) : d \in Days}}

\* states the search worksheet can be in before a call: missing, without any
\* cell, or a header row with data rows in any order, keys possibly repeated
ExistingStates ==
    {NoWorksheet, BlankWorksheet}
        \cup {Worksheet(GSC_COLUMNS, r) : r \in SeqsUpTo(StaleRows, MaxRows)}

NoRun ==
    /\ spreadsheet_id = FALSE /\ gsc_site_url = FALSE /\ ga4_property_id = FALSE
    /\ target_date = 0 /\ gscEnv = "" /\ ga4Env = "" /\ ga4BaseUrl = ""
    /\ gscCall = "" /\ ga4Call = ""
    /\ ga4Queries = <<>> /\ gsc_df = EmptyFrame(<<>>) /\ ga4_df = EmptyFrame(<<>>)
    /\ gsc_rows = 0 /\ ga4_rows = 0 /\ success = FALSE /\ error_message = None
    /\ raised = None /\ notifications = <<>> /\ steps = <<>>

NoNorm ==
    /\ normIn = EmptyFrame(<<>>) /\ normOnce = EmptyFrame(<<>>)
    /\ normTwice = EmptyFrame(<<>>)

InitUpsert ==
    /\ pc = "idle"
    /\ \E e \in ExistingStates :
            worksheets = [t \in Titles |-> IF t = "gsc_data_daily" THEN e ELSE NoWorksheet]
    /\ backups = [t \in Titles |-> NoFile]
    /\ sheetOps = <<>>
    /\ existing = NoWorksheet
    /\ firstResult = NoWorksheet
    /\ dataframe = EmptyFrame(GSC_COLUMNS)
    /\ sheetsEnv = "ok"
    /\ NoRun /\ NoNorm

CallUpsert(df, env) ==
    LET r == UpdateSheetWithDataframe(worksheets, backups, "gsc_data_daily", df, env)
    IN  /\ worksheets' = r.worksheets
        /\ backups' = r.backups
        /\ sheetOps' = r.ops
        /\ raised' = IF r.raised THEN Msg("APIError", 8) ELSE None
        /\ existing' = worksheets["gsc_data_daily"]
        /\ dataframe' = df
        /\ sheetsEnv' = env

\* the first call, with any table and any availability of the spreadsheet
Upsert ==
    /\ pc = "idle"
    /\ \E df \in NewTables, env \in SheetsEnvs : CallUpsert(df, env)
    /\ firstResult' = worksheets'["gsc_data_daily"]
    /\ pc' = "once"
    /\ UNCHANGED <<normVars, spreadsheet_id, gsc_site_url, ga4_property_id,
                   target_date, gscEnv, ga4Env, ga4BaseUrl, gscCall, ga4Call,
                   ga4Queries, gsc_df, ga4_df, gsc_rows, ga4_rows, success,
                   error_message, notifications, steps>>

\* the re-run: the same table against the worksheet the first call left
UpsertAgain ==
    /\ pc = "once"
    /\ CallUpsert(dataframe, sheetsEnv)
    /\ pc' = "twice"
    /\ UNCHANGED <<normVars, firstResult, spreadsheet_id, gsc_site_url,
                   ga4_property_id, target_date, gscEnv, ga4Env, ga4BaseUrl,
                   gscCall, ga4Call, ga4Queries, gsc_df, ga4_df, gsc_rows,
                   ga4_rows, success, error_message, notifications, steps>>

NextUpsert == Upsert \/ UpsertAgain

SpecUpsert == InitUpsert /\ [][NextUpsert]_vars

-----------------------------------------------------------------------------
(* Properties of the upsert, checked under SpecUpsert. *)

Stored == worksheets["gsc_data_daily"]

Keys(rows) == {KeyOf(rows[i]) : i \in 1..Len(rows)}

\* the last row of rows whose key is k
LastRowOf(rows, k) ==
    rows[CHOOSE i \in 1..Len(rows) :
            /\ KeyOf(rows[i]) = k
            /\ \A j \in (i + 1)..Len(rows) : KeyOf(rows[j]) # k]

\* a call with a non-empty table that took the spreadsheet path and returned
WroteSpreadsheet ==
    /\ pc \in {"once", "twice"}
    /\ sheetsEnv = "ok"
    /\ ~Empty(dataframe)

\* C1: after update_sheet_with_dataframe completes on the spreadsheet path
\* with a non-empty new table N over existing contents E, the worksheet holds
\* exactly one data row for each key of keys(E) \cup keys(N) and no other row.
C1_UpsertUniqueness ==
    WroteSpreadsheet =>
        /\ \A i, j \in 1..Len(Stored.rows) :
                KeyOf(Stored.rows[i]) = KeyOf(Stored.rows[j]) => i = j
        /\ Keys(Stored.rows) = Keys(existing.rows) \cup Keys(dataframe.rows)

\* C2: a key of both E and N is stored with N's last row for it, never E's;
\* a key of E alone is stored with E's row.
C2_UpsertPrecedence ==
    WroteSpreadsheet =>
        \A k \in Keys(existing.rows) :
            /\ \E i \in 1..Len(Stored.rows) : KeyOf(Stored.rows[i]) = k
            /\ \A i \in 1..Len(Stored.rows) :
                    KeyOf(Stored.rows[i]) = k =>
                        Stored.rows[i] =
                            IF k \in Keys(dataframe.rows)
                            THEN LastRowOf(dataframe.rows, k)
                            ELSE LastRowOf(existing.rows, k)

\* a first call that merged a table into rows of which one shares its key
\* with a different new row and another has a key of its own
C2_Witness ==
    /\ pc = "once"
    /\ WroteSpreadsheet
    /\ \E k \in Keys(existing.rows) \cap Keys(dataframe.rows) :
            /\ LastRowOf(existing.rows, k) # LastRowOf(dataframe.rows, k)
            /\ dataframe.rows[1] # LastRowOf(dataframe.rows, k)
            /\ KeyOf(dataframe.rows[1]) = k
    /\ Keys(existing.rows) \ Keys(dataframe.rows) # {}

\* C3: after every upsert that writes to the worksheet (first write, write
\* into an empty worksheet, merge) the data rows are sorted ascending by
\* (date, url).
C3_UpsertOrdering ==
    WroteSpreadsheet =>
        \A i, j \in 1..Len(Stored.rows) :
            i < j => ~KeyLess(Stored.rows[j], Stored.rows[i])

\* C4: a call with an empty new table creates, reads, clears and writes no
\* worksheet and writes no backup file.
C4_UpsertNoOp ==
    (pc \in {"once", "twice"} /\ Empty(dataframe)) =>
        /\ worksheets["gsc_data_daily"] = existing
        /\ worksheets["ga4_data_daily"] = NoWorksheet
        /\ backups = [t \in Titles |-> NoFile]
        /\ sheetOps = <<>>
        /\ raised = None

\* calls with an empty table where the worksheet is missing, and where the
\* credentials are
C4_Witness ==
    /\ pc = "twice"
    /\ Empty(dataframe)
    /\ sheetsEnv \in {"ok", "no_credentials"}
    /\ ~existing.exists

\* C5: the second call with the same table leaves the worksheet with the
\* same rows in the same order as the first call did.
C5_RerunConvergence ==
    (pc = "twice" /\ sheetsEnv = "ok") => Stored = firstResult

-----------------------------------------------------------------------------
(* SpecNorm: _prepare_dataframe applied to a table, and to its own result. *)

NormColumns == {"date", "url", "clicks", "impressions"}

\* cells a fetched date column can hold: a date object, an ISO string, a
\* timestamp with a time of day, a missing value, the string "NaT"
NormDates == {DateObj(1), IsoStr(1), IsoStr(2), Timestamp(2, 1), NaT, NaTStr}

NormRows ==
    {[date |-> d, url |-> "/a", clicks |-> c, impressions |-> i] :
        d \in NormDates, c \in {NaN, 1}, i \in {NaN, 0}}

\* tables with the four columns in any order
NormTables ==
    {[columns |-> cols, rows |-> r] :
        cols \in {p \in [1..Cardinality(NormColumns) -> NormColumns] :
                    Range(p) = NormColumns},
        r \in SeqsUpTo(NormRows, MaxNormRows)}

NoSheets ==
    /\ worksheets = [t \in Titles |-> NoWorksheet]
    /\ backups = [t \in Titles |-> NoFile]
    /\ sheetOps = <<>>
    /\ existing = NoWorksheet
    /\ firstResult = NoWorksheet
    /\ dataframe = EmptyFrame(<<>>)
    /\ sheetsEnv = "ok"

InitNorm ==
    /\ pc = "norm_start"
    /\ normIn \in NormTables
    /\ normOnce = EmptyFrame(<<>>)
    /\ normTwice = EmptyFrame(<<>>)
    /\ NoSheets /\ NoRun

PrepareOnce ==
    /\ pc = "norm_start"
    /\ normOnce' = PrepareDataframe(normIn, "date")
    /\ pc' = "norm_once"
    /\ UNCHANGED <<normIn, normTwice, sheetVars, firstResult, sheetsEnv, runVars>>

PrepareTwice ==
    /\ pc = "norm_once"
    /\ normTwice' = PrepareDataframe(normOnce, "date")
    /\ pc' = "norm_twice"
    /\ UNCHANGED <<normIn, normOnce, sheetVars, firstResult, sheetsEnv, runVars>>

NextNorm == PrepareOnce \/ PrepareTwice

SpecNorm == InitNorm /\ [][NextNorm]_vars

\* C10: normalize(normalize(T)) = normalize(T) for every table T with a date
\* and a url column, the empty table included: same column order, same ISO
\* date strings, same values with missing values replaced by 0.
C10_NormalizerIdempotent ==
    pc = "norm_twice" =>
        /\ normTwice = normOnce
        /\ Empty(normIn) => normOnce = normIn

\* a table whose columns, dates and missing values the first pass changed
C10_Witness ==
    /\ pc = "norm_twice"
    /\ normIn.columns # normOnce.columns
    /\ \E i \in 1..Len(normIn.rows) :
            /\ normIn.rows[i]["date"].kind = "timestamp"
            /\ normIn.rows[i]["clicks"] = NaN
            /\ normOnce.rows[i]["clicks"] = 0
            /\ normOnce.rows[i]["date"] = IsoStr(normIn.rows[i]["date"].day)

-----------------------------------------------------------------------------
(* Source connectors: gsc_connector and ga4_connector. *)

\* whether the client library imports and the credentials file is found
ConnectorEnvs == {"no_library", "no_credentials", "ok"}

\* gsc_connector._build_sample_df (ctr in thousandths, position in tenths)
BuildSampleDfGsc(target) ==
    [columns |-> GSC_COLUMNS,
     rows |-> <<[date |-> DateObj(target), url |-> "https://ejemplo.com/articulo-1",
                 clicks |-> 120, impressions |-> 4500, ctr |-> 26, position |-> 84],
                [date |-> DateObj(target), url |-> "https://ejemplo.com/articulo-2",
                 clicks |-> 75, impressions |-> 5200, ctr |-> 14, position |-> 121]>>]

\* ga4_connector._build_sample_df (duration in tenths, bounce rate in
\* hundredths)
BuildSampleDfGa4(target) ==
    [columns |-> GA4_COLUMNS,
     rows |-> <<[date |-> DateObj(target), url |-> "/articulo-1", users |-> 320,
                 sessions |-> 410, avg_session_duration |-> 1805, bounce_rate |-> 48],
                [date |-> DateObj(target), url |-> "/articulo-2", users |-> 145,
                 sessions |-> 200, avg_session_duration |-> 2200, bounce_rate |-> 35]>>]

\* rows of a searchanalytics response: the page key and the clicks, NaN for
\* a row without a clicks entry
GscApiRows == {[keys |-> "/a", clicks |-> 1], [keys |-> "/b", clicks |-> NaN]}

\* lines 72-83: one record per response row, absent numbers defaulting to 0
GscRecord(row, target) ==
    [date |-> DateObj(target), url |-> row.keys,
     clicks |-> IF row.clicks = NaN THEN 0 ELSE row.clicks,
     impressions |-> 0, ctr |-> 0, position |-> 0]

FetchGscSampleOnFailure(target, site_url, env, call, rows) ==
    IF env # "ok" \/ ~site_url \/ call = "raised"
    THEN BuildSampleDfGsc(target)
    ELSE IF rows = <<>> THEN EmptyFrame(GSC_COLUMNS)
    ELSE [columns |-> GSC_COLUMNS,
          rows |-> [i \in 1..Len(rows) |-> GscRecord(rows[i], target)]]

\* fetch_daily_gsc_data(target_date, site_url).  env: import and credentials
\* lookup (lines 38-49); call: whether anything inside the try block of
\* lines 53-90 raised; rows: the rows of the response.
FetchDailyGscData(target, site_url, env, call, rows) ==
    IF env # "ok" THEN BuildSampleDfGsc(target)
    ELSE IF ~site_url \/ call = "raised" THEN EmptyFrame(GSC_COLUMNS)
    ELSE IF rows = <<>> THEN EmptyFrame(GSC_COLUMNS)
    ELSE [columns |-> GSC_COLUMNS,
          rows |-> [i \in 1..Len(rows) |-> GscRecord(rows[i], target)]]

\* dimensions_priority
\* the candidate dimensions tried in the opposite priority
Ga4DimensionsPathFirst == <<"pagePath", "pagePathPlusQueryString",
                            "landingPagePlusQueryString", "pageLocation">>

Ga4Dimensions == <<"pageLocation", "landingPagePlusQueryString",
                   "pagePathPlusQueryString", "pagePath">>

\* rows of a run_report response: the dimension value and the users metric,
\* NaN for an empty metric value
Ga4ApiRows == {[value |-> " ", users |-> 1], [value |-> "/a", users |-> NaN]}

\* str.strip, str.startswith("http://" | "https://"), str.lstrip("/") and
\* str.rstrip("/") on the strings of the model
Strip(v) == IF v = " " THEN "" ELSE v
StartsWithHttp(v) == v \in {"https://site.com/a", "https://site.com/b"}
LStripSlash(v) == IF v = "/a" THEN "a" ELSE v
RStripSlash(v) == IF v = "https://site.com/" THEN "https://site.com" ELSE v

\* lines 181-186: the page URL of one dimension value
PageUrl(raw_value, dimension_name, base_url) ==
    IF StartsWithHttp(raw_value) THEN raw_value
    ELSE LET normalized ==
                IF dimension_name \in {"pagePath", "landingPagePlusQueryString",
                                       "pagePathPlusQueryString"}
                THEN LStripSlash(raw_value) ELSE raw_value
         IN  IF base_url # "" THEN base_url \o "/" \o normalized ELSE normalized

\* _rows_to_ga4_records: rows with a blank dimension value are skipped.  The
\* metric values of the model are whole numbers, which the rounding of
\* lines 97-100 keeps.
RowsToGa4Records(rows, target, dimension_name, base_url) ==
    LET kept == SelectSeq(rows, LAMBDA r : Strip(r.value) # "")
    IN  [i \in 1..Len(kept) |->
            [date |-> DateObj(target),
             url |-> PageUrl(Strip(kept[i].value), dimension_name, RStripSlash(base_url)),
             users |-> IF kept[i].users = NaN THEN 0 ELSE kept[i].users,
             sessions |-> 0, avg_session_duration |-> 0, bounce_rate |-> 0]]

-----------------------------------------------------------------------------
(* Notifier: notifications. *)

MaxErrorChars == 200

Line(kind, num, msg) == [kind |-> kind, num |-> num, msg |-> msg]

\* error_message[:200] + ellipsis when longer than 200 characters
Trimmed(msg) ==
    IF msg.len > MaxErrorChars
    THEN [id |-> msg.id, len |-> MaxErrorChars, ellipsis |-> TRUE]
    ELSE msg

\* truth value of an Optional[str]: None and "" are false
Truthy(msg) == msg # None /\ msg.len > 0

\* _build_summary_text: the lines of the text
BuildSummaryText(target, n_gsc, n_ga4, ok, msg) ==
    <<Line("status", 0, IF ok THEN Msg("OK", 2) ELSE Msg("ERROR", 5)),
      Line("objetivo", target, None),
      Line("gsc_filas", n_gsc, None),
      Line("ga4_filas", n_ga4, None),
      Line("utc_run", 0, None)>>
        \o (IF Truthy(msg) THEN <<Line("error", 0, Trimmed(msg))>>
            ELSE IF n_ga4 = 0 THEN <<Line("aviso_ga4", 0, None)>>
            ELSE <<>>)

\* what send_pipeline_summary_notification does: the message is sent, is not
\* sent (Telegram not configured or unreachable), or the call raises
NotifyOutcomes == {"sent", "not_sent", "raised"}

-----------------------------------------------------------------------------
(* Orchestrator: data_pipeline.run_pipeline, one invocation. *)

\* str(exc) of an error of the spreadsheet API
ApiErrorTexts == {Msg("", 0), Msg("APIError", 8), Msg("APIError with details", 250)}

\* one stale row of an earlier day, as an earlier run left it
StaleSheet(columns, metric) ==
    Worksheet(columns,
              <<[c \in Range(columns) |->
                    IF c = "date" THEN IsoStr(1)
                    ELSE IF c = "url" THEN (IF metric = "clicks" THEN "/a" ELSE "a")
                    ELSE IF c = metric THEN 7 ELSE 0]>>)

Init ==
    /\ pc = "start"
    /\ spreadsheet_id \in BOOLEAN
    /\ gsc_site_url \in BOOLEAN
    /\ ga4_property_id \in BOOLEAN
    /\ gscEnv \in ConnectorEnvs
    /\ ga4Env \in ConnectorEnvs
    /\ ga4BaseUrl \in {"", "https://site.com"}
    /\ sheetsEnv \in SheetsEnvs \ {"api_error"}
    /\ worksheets \in
          {[t \in Titles |-> NoWorksheet],
           [t \in Titles |-> IF t = "gsc_data_daily"
                             THEN StaleSheet(GSC_COLUMNS, "clicks")
                             ELSE StaleSheet(GA4_COLUMNS, "users")]}
    /\ backups = [t \in Titles |-> NoFile]
    /\ sheetOps = <<>>
    /\ existing = NoWorksheet
    /\ firstResult = NoWorksheet
    /\ dataframe = EmptyFrame(<<>>)
    /\ target_date = 0
    /\ gscCall = "" /\ ga4Call = "" /\ ga4Queries = <<>>
    /\ gsc_df = EmptyFrame(<<>>) /\ ga4_df = EmptyFrame(<<>>)
    /\ gsc_rows = 0 /\ ga4_rows = 0
    /\ success = FALSE
    /\ error_message = None
    /\ raised = None
    /\ notifications = <<>>
    /\ steps = <<>>
    /\ NoNorm

envVars == <<spreadsheet_id, gsc_site_url, ga4_property_id, gscEnv, ga4Env,
             ga4BaseUrl, sheetsEnv>>
upsertHistory == <<existing, firstResult, dataframe>>

StartWithoutIdCheck ==
    /\ pc = "start"
    /\ \E d \in Days :
            /\ target_date' = d
            /\ pc' = "fetch_gsc"
            /\ UNCHANGED raised
    /\ UNCHANGED <<normVars, envVars, worksheets, backups, sheetOps,
                   upsertHistory, gscCall, ga4Call, ga4Queries, gsc_df, ga4_df,
                   gsc_rows, ga4_rows, success, error_message, notifications,
                   steps>>

\* lines 84-101: configuration, target date, locals.  The spreadsheet id is
\* required; _get_target_date raises on a PIPELINE_TARGET_DATE that is no ISO
\* date (day 0 below).  Both exceptions leave run_pipeline at once.
Start ==
    /\ pc = "start"
    /\ IF ~spreadsheet_id
       THEN /\ raised' = Msg("Se requiere SEO_MASTER_SPREADSHEET_ID", 67)
            /\ pc' = "raised"
            /\ UNCHANGED target_date
       ELSE \E d \in Days \cup {0} :
                IF d = 0
                THEN /\ raised' = Msg("Invalid isoformat string", 29)
                     /\ pc' = "raised"
                     /\ UNCHANGED target_date
                ELSE /\ target_date' = d
                     /\ pc' = "fetch_gsc"
                     /\ UNCHANGED raised
    /\ UNCHANGED <<normVars, envVars, worksheets, backups, sheetOps,
                   upsertHistory, gscCall, ga4Call, ga4Queries, gsc_df, ga4_df,
                   gsc_rows, ga4_rows, success, error_message, notifications,
                   steps>>

\* lines 104-107: fetch and normalize the search table
FetchGsc ==
    /\ pc = "fetch_gsc"
    /\ \E call \in {"returned", "raised"}, rows \in SeqsUpTo(GscApiRows, MaxFetch) :
        LET df == PrepareDataframe(
                    FetchDailyGscData(target_date, gsc_site_url, gscEnv, call, rows),
                    "date")
        IN  /\ gsc_df' = df
            /\ gsc_rows' = Len(df.rows)
            /\ gscCall' = IF gscEnv # "ok" THEN "not_called"
                          ELSE IF ~gsc_site_url THEN "no_site_url"
                          ELSE call
    /\ steps' = Append(steps, "fetch_gsc")
    /\ pc' = "fetch_ga4"
    /\ UNCHANGED <<normVars, envVars, worksheets, backups, sheetOps,
                   upsertHistory, target_date, ga4Call, ga4Queries, ga4_df,
                   ga4_rows, success, error_message, raised, notifications>>

\* line 110 into fetch_daily_ga4_data lines 33-62: sample data without
\* library or credentials, ValueError without property id (caught by
\* run_pipeline, lines 137-139), else the client is built, which may raise
\* inside the try block.
FetchGa4Start ==
    /\ pc = "fetch_ga4"
    /\ steps' = Append(steps, "fetch_ga4")
    /\ IF ga4Env # "ok"
       THEN LET df == PrepareDataframe(BuildSampleDfGa4(target_date), "date")
            IN  /\ ga4_df' = df
                /\ ga4_rows' = Len(df.rows)
                /\ ga4Call' = "not_called"
                /\ pc' = "write_gsc"
                /\ UNCHANGED <<error_message, raised>>
       ELSE IF ~ga4_property_id
       THEN /\ error_message' = Msg("property_id requerido para consultar GA4", 40)
            /\ raised' = Msg("property_id requerido para consultar GA4", 40)
            /\ ga4Call' = "no_property_id"
            /\ pc' = "notify"
            /\ UNCHANGED <<ga4_df, ga4_rows>>
       ELSE \E client_raises \in BOOLEAN :
                IF client_raises
                THEN /\ ga4_df' = PrepareDataframe(EmptyFrame(GA4_COLUMNS), "date")
                     /\ ga4_rows' = 0
                     /\ ga4Call' = "raised"
                     /\ pc' = "write_gsc"
                     /\ UNCHANGED <<error_message, raised>>
                ELSE /\ ga4Call' = "querying"
                     /\ pc' = "ga4_query"
                     /\ UNCHANGED <<ga4_df, ga4_rows, error_message, raised>>
    /\ UNCHANGED <<normVars, envVars, worksheets, backups, sheetOps,
                   upsertHistory, target_date, gscCall, ga4Queries, gsc_df,
                   gsc_rows, success, notifications>>

\* fetch_daily_ga4_data lines 64-109, one pass of the loop over
\* dimensions_priority, and lines 111-112 of run_pipeline once it returns
Ga4Query ==
    /\ pc = "ga4_query"
    /\ LET dimension_name == Ga4Dimensions[Len(ga4Queries) + 1]
       IN  \E call \in {"returned", "raised"},
              rows \in SeqsUpTo(Ga4ApiRows, MaxFetch) :
                LET data == IF call = "raised" THEN <<>>
                            ELSE RowsToGa4Records(rows, target_date,
                                                  dimension_name, ga4BaseUrl)
                    df == PrepareDataframe(
                            IF call = "raised" \/ data = <<>>
                            THEN EmptyFrame(GA4_COLUMNS)
                            ELSE [columns |-> GA4_COLUMNS, rows |-> data],
                            "date")
                IN  /\ ga4Queries' = Append(ga4Queries,
                                             [dimension |-> dimension_name,
                                              call |-> call,
                                              records |-> data])
                    /\ IF call = "returned" /\ data = <<>>
                          /\ Len(ga4Queries) + 1 < Len(Ga4Dimensions)
                       THEN /\ pc' = "ga4_query"
                            /\ UNCHANGED <<ga4_df, ga4_rows, ga4Call>>
                       ELSE /\ ga4_df' = df
                            /\ ga4_rows' = Len(df.rows)
                            /\ ga4Call' = call
                            /\ pc' = "write_gsc"
    /\ UNCHANGED <<normVars, envVars, worksheets, backups, sheetOps,
                   upsertHistory, target_date, gscCall, gsc_df, gsc_rows,
                   success, error_message, raised, notifications, steps>>

\* the write step with its exception swallowed: the run goes on to the next
\* step although the upsert raised
WriteSheetContinuesAfterFailure(title, df, step, next) ==
    \E fails \in BOOLEAN, text \in ApiErrorTexts :
        LET env == IF sheetsEnv = "ok" /\ fails THEN "api_error" ELSE sheetsEnv
            r == UpdateSheetWithDataframe(worksheets, backups, title, df, env)
        IN  /\ worksheets' = r.worksheets
            /\ backups' = r.backups
            /\ sheetOps' = sheetOps \o r.ops
            /\ steps' = Append(steps, step)
            /\ pc' = next
            /\ IF r.raised
               THEN /\ error_message' = text
                    /\ raised' = text
                    /\ UNCHANGED success
               ELSE /\ success' = (next = "notify")
                    /\ UNCHANGED <<error_message, raised>>

\* update_sheet_with_dataframe called by run_pipeline; the spreadsheet API
\* may fail in any call
WriteSheet(title, df, step, next) ==
    \E fails \in BOOLEAN, text \in ApiErrorTexts :
        LET env == IF sheetsEnv = "ok" /\ fails THEN "api_error" ELSE sheetsEnv
            r == UpdateSheetWithDataframe(worksheets, backups, title, df, env)
        IN  /\ worksheets' = r.worksheets
            /\ backups' = r.backups
            /\ sheetOps' = sheetOps \o r.ops
            /\ steps' = Append(steps, step)
            /\ IF r.raised
               THEN /\ error_message' = text
                    /\ raised' = text
                    /\ pc' = "notify"
                    /\ UNCHANGED success
               ELSE /\ pc' = next
                    /\ success' = (next = "notify")
                    /\ UNCHANGED <<error_message, raised>>

WriteGscOnlyWithBoth ==
    /\ pc = "write_gsc"
    /\ IF gsc_rows > 0 /\ ga4_rows > 0
       THEN WriteSheet("gsc_data_daily", gsc_df, "write_gsc", "write_ga4")
       ELSE /\ pc' = "write_ga4"
            /\ UNCHANGED <<worksheets, backups, sheetOps, steps, error_message,
                           raised, success>>
    /\ UNCHANGED <<normVars, envVars, upsertHistory, target_date, gscCall,
                   ga4Call, ga4Queries, gsc_df, ga4_df, gsc_rows, ga4_rows,
                   notifications>>

\* lines 113-120
WriteGsc ==
    /\ pc = "write_gsc"
    /\ IF gsc_rows > 0
       THEN WriteSheet("gsc_data_daily", gsc_df, "write_gsc", "write_ga4")
       ELSE /\ pc' = "write_ga4"
            /\ UNCHANGED <<worksheets, backups, sheetOps, steps, error_message,
                           raised, success>>
    /\ UNCHANGED <<normVars, envVars, upsertHistory, target_date, gscCall,
                   ga4Call, ga4Queries, gsc_df, ga4_df, gsc_rows, ga4_rows,
                   notifications>>

\* lines 122-136
WriteGa4 ==
    /\ pc = "write_ga4"
    /\ IF ga4_rows > 0
       THEN WriteSheet("ga4_data_daily", ga4_df, "write_ga4", "notify")
       ELSE /\ pc' = "notify"
            /\ success' = TRUE
            /\ UNCHANGED <<worksheets, backups, sheetOps, steps, error_message,
                           raised>>
    /\ UNCHANGED <<normVars, envVars, upsertHistory, target_date, gscCall,
                   ga4Call, ga4Queries, gsc_df, ga4_df, gsc_rows, ga4_rows,
                   notifications>>

NotifyOnlyOnSuccess ==
    /\ pc = "notify"
    /\ \E outcome \in NotifyOutcomes :
        notifications' =
            IF ~success THEN notifications
            ELSE Append(notifications,
                    [target_date |-> target_date, gsc_rows |-> gsc_rows,
                     ga4_rows |-> ga4_rows, success |-> success,
                     error_message |-> error_message,
                     text |-> BuildSummaryText(target_date, gsc_rows, ga4_rows,
                                               success, error_message),
                     outcome |-> outcome])
    /\ steps' = Append(steps, "notify")
    /\ pc' = IF raised # None THEN "raised" ELSE "returned"
    /\ UNCHANGED <<normVars, envVars, worksheets, backups, sheetOps,
                   upsertHistory, target_date, gscCall, ga4Call, ga4Queries,
                   gsc_df, ga4_df, gsc_rows, ga4_rows, success, error_message,
                   raised>>

\* lines 140-150: the finally block.  An exception of the notifier is logged
\* and dropped; the exception caught at line 137 is re-raised after it.
Notify ==
    /\ pc = "notify"
    /\ \E outcome \in NotifyOutcomes :
        notifications' = Append(notifications,
            [target_date |-> target_date, gsc_rows |-> gsc_rows,
             ga4_rows |-> ga4_rows, success |-> success,
             error_message |-> error_message,
             text |-> BuildSummaryText(target_date, gsc_rows, ga4_rows, success,
                                       error_message),
             outcome |-> outcome])
    /\ steps' = Append(steps, "notify")
    /\ pc' = IF raised # None THEN "raised" ELSE "returned"
    /\ UNCHANGED <<normVars, envVars, worksheets, backups, sheetOps,
                   upsertHistory, target_date, gscCall, ga4Call, ga4Queries,
                   gsc_df, ga4_df, gsc_rows, ga4_rows, success, error_message,
                   raised>>

Next ==
    \/ Start
    \/ FetchGsc
    \/ FetchGa4Start
    \/ Ga4Query
    \/ WriteGsc
    \/ WriteGa4
    \/ Notify

Spec == Init /\ [][Next]_vars

-----------------------------------------------------------------------------
(* Properties of one invocation of run_pipeline, checked under Spec. *)

Ended == pc \in {"returned", "raised"}

\* the notifier was called once, with the run's outcome and error text
NotifiedOnce ==
    /\ Len(notifications) = 1
    /\ steps[Len(steps)] = "notify"
    /\ notifications[1].success = (pc = "returned")
    /\ pc = "raised" =>
            /\ raised # None
            /\ notifications[1].error_message = raised
    /\ pc = "returned" =>
            /\ raised = None
            /\ notifications[1].error_message = None

\* C6 as stated: every invocation, ended in success or in failure, has called
\* the notifier exactly once; a failed one passed success = false and the
\* exception's text, and re-raised that exception.
C6_NotifiedInEveryInvocation == Ended => NotifiedOnce

\* C6 as amended: an invocation that has a spreadsheet id and a valid target
\* date, ended in success or in failure, has called the notifier exactly once
\* as its last step; a failed one passed success = false and the text of the
\* step's exception, and re-raised that exception even when the notifier
\* raised too.  An invocation that fails on the missing spreadsheet id or on
\* the target date raises without calling the notifier.
C6_NotifiedOncePastConfiguration ==
    /\ Len(notifications) <= 1
    /\ (Ended /\ target_date # 0) => NotifiedOnce
    /\ (Ended /\ target_date = 0) => (pc = "raised" /\ notifications = <<>>)

\* a run whose search write failed and whose notifier raised as well
C6_Witness ==
    /\ pc = "raised"
    /\ steps = <<"fetch_gsc", "fetch_ga4", "write_gsc", "notify">>
    /\ notifications[1].outcome = "raised"
    /\ notifications[1].error_message = Msg("APIError", 8)

\* C7: without a spreadsheet id run_pipeline raises before any fetch is
\* started and before any worksheet or backup file is written.
C7_MissingSpreadsheetIdFatal ==
    /\ [](~spreadsheet_id =>
            /\ pc \in {"start", "raised"}
            /\ steps = <<>> /\ sheetOps = <<>>
            /\ gscCall = "" /\ ga4Call = "" /\ ga4Queries = <<>>
            /\ backups = [t \in Titles |-> NoFile])
    /\ [][~spreadsheet_id =>
            /\ pc' = "raised"
            /\ raised' # None
            /\ UNCHANGED <<worksheets, backups>>]_vars

\* the invocation without spreadsheet id has raised
C7_Witness ==
    /\ ~spreadsheet_id
    /\ pc = "raised"
    /\ worksheets["gsc_data_daily"].exists

\* df was upserted into the worksheet title: merged into the worksheet, or
\* exported to the backup file when the spreadsheet is not available
UpsertedInto(title, df) ==
    IF sheetsEnv = "ok"
    THEN /\ worksheets[title].exists
         /\ worksheets[title].header = df.columns
         /\ \A i \in 1..Len(df.rows) :
                \E j \in 1..Len(worksheets[title].rows) :
                    KeyOf(worksheets[title].rows[j]) = KeyOf(df.rows[i])
         /\ backups[title] = NoFile
    ELSE /\ backups[title] = CsvFile(df)
         /\ worksheets[title] \in {NoWorksheet, StaleSheet(GSC_COLUMNS, "clicks"),
                                   StaleSheet(GA4_COLUMNS, "users")}

\* the worksheet and backup file of title are as they were before the run
Untouched(title, columns, metric) ==
    /\ worksheets[title] \in {NoWorksheet, StaleSheet(columns, metric)}
    /\ backups[title] = NoFile

HasLine(text, kind) == \E i \in 1..Len(text) : text[i].kind = kind

\* C8: when a source returned zero rows and no step raised, the run ends
\* with success = true, the upsert is not called for the zero-row source, the
\* other source's non-empty table is upserted into its own worksheet, and
\* zero analytics rows put the advisory line into the notification text.
C8_PartialOutcomeIsSuccess ==
    pc = "returned" =>
        /\ success
        /\ notifications[1].success
        /\ gsc_rows = 0 =>
                /\ "write_gsc" \notin Range(steps)
                /\ Untouched("gsc_data_daily", GSC_COLUMNS, "clicks")
        /\ ga4_rows = 0 =>
                /\ "write_ga4" \notin Range(steps)
                /\ Untouched("ga4_data_daily", GA4_COLUMNS, "users")
                /\ HasLine(notifications[1].text, "aviso_ga4")
        /\ gsc_rows > 0 =>
                /\ "write_gsc" \in Range(steps)
                /\ UpsertedInto("gsc_data_daily", gsc_df)
        /\ ga4_rows > 0 =>
                /\ "write_ga4" \in Range(steps)
                /\ UpsertedInto("ga4_data_daily", ga4_df)

\* a run whose live analytics queries gave no record while the search
\* connector gave rows, written into the spreadsheet
C8_Witness ==
    /\ pc = "returned"
    /\ ga4Call = "returned" /\ ga4_rows = 0
    /\ gscCall = "returned" /\ gsc_rows > 0
    /\ sheetsEnv = "ok"
    /\ Len(ga4Queries) = Len(Ga4Dimensions)

GscFetched == "fetch_gsc" \in Range(steps)
Ga4Fetched == ga4Call \in {"not_called", "raised", "returned"}

SampleUrls == {"https://ejemplo.com/articulo-1", "https://ejemplo.com/articulo-2",
               "/articulo-1", "/articulo-2"}

\* the table is what the normalizer makes of the sample table: two rows of
\* the target date
IsSample(df, sample) ==
    /\ df = PrepareDataframe(sample, "date")
    /\ Len(df.rows) = 2
    /\ \A i \in 1..Len(df.rows) :
            /\ df.rows[i]["date"] = IsoStr(target_date)
            /\ df.rows[i]["url"] = sample.rows[i]["url"]

NoSampleRow(df) == \A i \in 1..Len(df.rows) : df.rows[i]["url"] \notin SampleUrls

\* C9: a connector without client library or credentials file returns the
\* 2-row sample table of the target date, never an empty table; a connector
\* whose live call raises returns an empty table with its column set; with
\* library and credentials no sample row is returned.
C9_DegradedAndLiveFailureDiffer ==
    /\ GscFetched =>
            /\ gscEnv # "ok" => IsSample(gsc_df, BuildSampleDfGsc(target_date))
            /\ (gscEnv = "ok" /\ gscCall = "raised") =>
                    gsc_df = EmptyFrame(GSC_COLUMNS)
            /\ gscEnv = "ok" => NoSampleRow(gsc_df)
    /\ Ga4Fetched =>
            /\ ga4Env # "ok" => IsSample(ga4_df, BuildSampleDfGa4(target_date))
            /\ (ga4Env = "ok" /\ ga4Call = "raised") =>
                    ga4_df = EmptyFrame(GA4_COLUMNS)
            /\ ga4Env = "ok" => NoSampleRow(ga4_df)

\* the search call raised with credentials found, the analytics connector
\* had no credentials
C9_Witness ==
    /\ pc = "write_gsc"
    /\ gscEnv = "ok" /\ gscCall = "raised"
    /\ ga4Env = "no_credentials"
    /\ Len(ga4_df.rows) = 2

\* ---------------------------------------------------------------------
\* Summary text lines by outcome (notifications.py 33-59)

LinesOf(text, kind) == {i \in 1..Len(text) : text[i].kind = kind}

\* the error message as the summary is said to carry it: whole when it has
\* at most 200 characters, else its first 200 followed by an ellipsis
CutTo200(msg) ==
    [id |-> msg.id,
     len |-> IF msg.len > 200 THEN 200 ELSE msg.len,
     ellipsis |-> msg.len > 200]

\* C11: the summary text of a notification has an error line if and only
\* if the run failed, and that line carries the error message cut to 200
\* characters plus an ellipsis when it was longer; it has the
\* zero-analytics advisory line if and only if the run did not fail and
\* the analytics row count is 0; so a failed run's text never has the
\* advisory line, whatever the error message, the empty one included.
C11_SummaryLinesByOutcome ==
    \A i \in 1..Len(notifications) :
        LET n == notifications[i]
        IN  /\ HasLine(n.text, "error") <=> ~n.success
            /\ \A j \in LinesOf(n.text, "error") :
                   n.text[j].msg = CutTo200(n.error_message)
            /\ HasLine(n.text, "aviso_ga4") <=> (n.success /\ n.ga4_rows = 0)
            /\ ~n.success => ~HasLine(n.text, "aviso_ga4")

\* ---------------------------------------------------------------------
\* Step order inside one run (data_pipeline.py 103-150)

StepOrder == <<"fetch_gsc", "fetch_ga4", "write_gsc", "write_ga4", "notify">>

StepRank(step) == CHOOSE i \in 1..Len(StepOrder) : StepOrder[i] = step

StepsInOrder ==
    \A i, j \in 1..Len(steps) :
        i < j => StepRank(steps[i]) < StepRank(steps[j])

WriteSteps == {"write_gsc", "write_ga4"}

SheetsTouched ==
    \/ worksheets' # worksheets
    \/ backups' # backups
    \/ sheetOps' # sheetOps

\* C12: the steps of a run happen only in the order fetch search, fetch
\* analytics, write search worksheet, write analytics worksheet, notify;
\* nothing reaches the spreadsheet before both fetches have returned; once
\* a step has raised (a fetch, even with the search table already fetched,
\* or the search write) no worksheet changes any more and the only step
\* that still happens is the notification; the notification is the last
\* step of the run.
C12_StrictStepOrder ==
    /\ [](/\ StepsInOrder
          /\ (sheetOps # <<>> \/ WriteSteps \cap Range(steps) # {})
                => /\ {"fetch_gsc", "fetch_ga4"} \subseteq Range(steps)
                   /\ GscFetched /\ Ga4Fetched
          /\ ga4Call = "no_property_id"
                => /\ sheetOps = <<>>
                   /\ WriteSteps \cap Range(steps) = {}
                   /\ Untouched("gsc_data_daily", GSC_COLUMNS, "clicks")
                   /\ Untouched("ga4_data_daily", GA4_COLUMNS, "users")
          /\ "notify" \in Range(steps)
                => steps[Len(steps)] = "notify" /\ Ended)
    /\ [][/\ SheetsTouched
                => /\ steps' \in {Append(steps, "write_gsc"),
                                   Append(steps, "write_ga4")}
                   /\ Ga4Fetched /\ GscFetched
                   /\ raised = None
          /\ raised # None
                => /\ ~SheetsTouched
                   /\ steps' \in {steps, Append(steps, "notify")}
          /\ pc = "write_gsc" /\ raised' # None
                => /\ pc' = "notify"
                   /\ "write_ga4" \notin Range(steps')
          /\ "notify" \in Range(steps)
                => ~SheetsTouched /\ steps' = steps]_vars

\* the search write raised with a non-empty analytics table fetched: the
\* run went from the failed write straight to the notification
C12_Witness ==
    /\ steps = <<"fetch_gsc", "fetch_ga4", "write_gsc", "notify">>
    /\ raised # None
    /\ gsc_rows > 0 /\ ga4_rows > 0
    /\ pc = "raised"

\* ---------------------------------------------------------------------
\* Analytics dimension fallback (ga4_connector.py 52-106)

NoRecord(query) == query.call = "returned" /\ query.records = <<>>

\* C13: a live analytics call queries the dimensions in the order
\* pageLocation, landingPagePlusQueryString, pagePathPlusQueryString,
\* pagePath; a dimension is queried only if every earlier one yielded no
\* record, so no query follows the first one that yields a record with a
\* non-blank dimension value, and the connector returns that query's
\* records; if all four yield none it returns the empty table with the
\* analytics columns.
C13_DimensionFallback ==
    LET priority == <<"pageLocation", "landingPagePlusQueryString",
                      "pagePathPlusQueryString", "pagePath">>
        n == Len(ga4Queries)
    IN  /\ n <= Len(priority)
        /\ \A i \in 1..n : ga4Queries[i].dimension = priority[i]
        /\ \A i, j \in 1..n : i < j => NoRecord(ga4Queries[i])
        /\ pc = "ga4_query"
              => n < Len(priority) /\ \A i \in 1..n : NoRecord(ga4Queries[i])
        /\ ga4Call = "returned"
              => /\ n > 0
                 /\ ga4Queries[n].call = "returned"
                 /\ IF ga4Queries[n].records # <<>>
                    THEN /\ ga4_rows = Len(ga4Queries[n].records)
                         /\ ga4_df = PrepareDataframe(
                                [columns |-> GA4_COLUMNS,
                                 rows |-> ga4Queries[n].records], "date")
                    ELSE /\ n = Len(priority)
                         /\ ga4_rows = 0
                         /\ ga4_df = EmptyFrame(GA4_COLUMNS)

\* the first dimension yielded no record and the second one did: its
\* records were returned and the last two dimensions were never queried
C13_Witness ==
    /\ ga4Call = "returned"
    /\ Len(ga4Queries) = 2
    /\ NoRecord(ga4Queries[1])
    /\ ga4Queries[2].dimension = "landingPagePlusQueryString"
    /\ ga4Queries[2].records # <<>>
    /\ ga4_rows > 0
    /\ pc = "write_gsc"

\* ---------------------------------------------------------------------
\* Missing identifier of a source (gsc_connector.py 53-96,
\* ga4_connector.py 40-50)

MissingSiteUrl == gscEnv = "ok" /\ ~gsc_site_url /\ GscFetched

MissingPropertyId ==
    ga4Env = "ok" /\ ~ga4_property_id /\ "fetch_ga4" \in Range(steps)

\* C14: with the client library and the credentials file available, a
\* connector whose identifier (site URL, property id) is absent returns the
\* empty table with its columns and raises nothing to the orchestrator: a
\* run that ends in failure then failed in a worksheet write, and the other
\* source's table, when it has rows, is handed to the upsert.
C14_MissingIdentifierDegrades ==
    /\ MissingSiteUrl
          => /\ gsc_df = EmptyFrame(GSC_COLUMNS)
             /\ gsc_rows = 0
             /\ raised # None => WriteSteps \cap Range(steps) # {}
             /\ (Ended /\ ga4_rows > 0) => "write_ga4" \in Range(steps)
    /\ MissingPropertyId
          => /\ ga4_df = EmptyFrame(GA4_COLUMNS)
             /\ ga4_rows = 0
             /\ raised # None => WriteSteps \cap Range(steps) # {}
             /\ (Ended /\ gsc_rows > 0) => "write_gsc" \in Range(steps)

====
